---- MODULE Spec2Model ----
(***************************************************************************)
(* FocusGuard RAG pipeline (serv/api/services/rag_service.py and the       *)
(* conversation / rag routes that drive it).                               *)
(*                                                                         *)
(* Two specifications share this module:                                   *)
(*   SpecInit  - lazy initialization of the RAGService singleton under     *)
(*               asyncio's cooperative scheduling: every action is the     *)
(*               code that runs between two suspension points (awaits).    *)
(*   SpecQuery - one query travelling through RAGService.query or          *)
(*               RAGService.query_with_conversation on a READY service.    *)
(* Similarity scores are integers in hundredths (0.5 is 50, 0.3 is 30).    *)
(***************************************************************************)
EXTENDS Naturals, Integers, Sequences, FiniteSets, TLC

\* ------------------------------------------------------------------ bounds
MaxCoro == 2        \* initialize() coroutines ever created in one behaviour
NumReq == 2         \* requests (route or service calls) in one behaviour
MaxFailures == 1    \* construction steps that may raise in one behaviour

None == 0           \* Python's None for object-valued fields

CoroIds == 1..MaxCoro
ReqIds == 1..NumReq

VARIABLES
    _initialized,   \* RAGService._initialized
    embedder,       \* RAGService.embedder: None or the id of the embedder object
    vector_store,   \* RAGService.vector_store: None or the id of the store object
    retriever,      \* RAGService.retriever: unbuilt, or the embedder and store it was built from
    generator,      \* RAGService.generator: None or the generator singleton (1)
    vsInitDone,     \* store objects whose own initialize() returned normally
    coro,           \* the initialize() coroutines: position, how started, who awaits,
                    \* and how many failures had happened when they entered initialize()
    nCoro,          \* number of initialize() coroutines created so far
    req,            \* the requests: position and what their response carries
    failures,       \* construction steps that have raised so far
    kb,             \* ids of the documents stored in the Qdrant collection
    q,              \* the query call in progress: arguments, locals, calls made, response
    retrieval,      \* a Retriever object (its threshold) and its retrieve() call in progress
    coll,           \* the Qdrant collection of a QdrantVectorStore: existence, indexes, points
    op,             \* the store call in progress: arguments, position, outcome
    storeFailures,  \* Qdrant requests that have failed so far
    cleaning,       \* a Retriever._preprocess_query call: the query and what it returned
    filtering,      \* a Retriever._build_filter call: the two dicts and what it returned
    generation,     \* a HuggingFaceGenerator (max_retries) and its _call_api_with_retry call
    embedding,      \* an embedder (its settings, _validated) and its embed_batch call
    route           \* the conversation route on a READY service: the stored messages
                    \* and the request in progress

svcVars == <<_initialized, embedder, vector_store, retriever, generator, vsInitDone>>
initVars == <<svcVars, coro, nCoro, req, failures>>
qVars == <<kb, q>>
retrVars == <<retrieval>>
storeVars == <<coll, op, storeFailures>>
coreVars == <<initVars, qVars, retrVars, storeVars>>
auxVars == <<cleaning, filtering, generation, embedding, route>>

\* ------------------------------------------------------- RAGService.__init__
NoRetriever == [built |-> FALSE, embedder |-> None, vector_store |-> None]

ServiceConstructed ==
    /\ _initialized = FALSE
    /\ embedder = None
    /\ vector_store = None
    /\ retriever = NoRetriever
    /\ generator = None
    /\ vsInitDone = {}

NoCoro == [pc |-> "unused", kind |-> "none", waiter |-> 0, prior |-> 0]
NoReq == [pc |-> "idle", kind |-> "none", arrivedNotReady |-> FALSE,
          waited |-> FALSE, marker |-> FALSE, retrieved |-> FALSE]

\* ------------------------------------------------- RAGService.initialize
\* May this step raise?  Failures are external (model download, Qdrant
\* connection, missing LLM credentials); the budget keeps the model finite.
MayFail(fail) == fail => failures < MaxFailures

\* Variant: no `if self._initialized: return` at the entry
InitializeEntryAlways(c, fail) == IF fail THEN "raised" ELSE "awaitVS"

\* initialize() from its entry to its first suspension point, run by
\* coroutine c: the _initialized short-circuit, the embedder construction
\* (lines 38-54, re-raised on error), the QdrantVectorStore construction and
\* the call of vector_store.initialize(), where the coroutine suspends.
\* Yields the coroutine's new position.
InitializeEntry(c, fail) ==
    IF _initialized THEN "returned"
    ELSE IF fail THEN "raised" ELSE "awaitVS"

InitializeBegin(c, knd, w, fail) ==
    LET to == InitializeEntry(c, fail) IN
    /\ MayFail(fail)
    /\ coro' = [coro EXCEPT ![c] = [pc |-> to, kind |-> knd, waiter |-> w, prior |-> failures]]
    /\ failures' = IF to = "raised" THEN failures + 1 ELSE failures
    /\ IF to = "awaitVS"
       THEN /\ embedder' = c
            /\ vector_store' = c
       ELSE UNCHANGED <<embedder, vector_store>>
    /\ UNCHANGED <<_initialized, retriever, generator, vsInitDone>>

\* The outcomes of the second half of initialize(): which step raises, if any.
ResumeOutcomes == {"ok", "vs_fail", "retriever_fail", "generator_fail"}

\* Retriever(embedder=self.embedder, vector_store=self.vector_store, ...):
\* the arguments are the service's fields as they are when the line runs.
NewRetriever == [built |-> TRUE, embedder |-> embedder, vector_store |-> vector_store]

\* Variant: the flag assigned before get_generator() instead of after it.
InitializedAfterEarly(outcome) ==
    IF outcome \in {"ok", "generator_fail"} THEN TRUE ELSE _initialized

\* _initialized after the second half of initialize(): line 75 runs only
\* when no earlier line raised.
InitializedAfter(outcome) ==
    IF outcome = "ok" THEN TRUE ELSE _initialized

\* initialize() from the return of `await self.vector_store.initialize()`
\* (line 60) to its end (line 76): no suspension point in between.  The
\* store awaited is the one this coroutine constructed (object id c).  A
\* request that awaits this coroutine continues with it (same asyncio task).
InitializeResume(c, outcome) ==
    /\ coro[c].pc = "awaitVS"
    /\ outcome \in ResumeOutcomes
    /\ MayFail(outcome # "ok")
    /\ failures' = IF outcome # "ok" THEN failures + 1 ELSE failures
    /\ vsInitDone' = IF outcome # "vs_fail" THEN vsInitDone \cup {c} ELSE vsInitDone
    /\ retriever' = IF outcome \in {"ok", "generator_fail"} THEN NewRetriever ELSE retriever
    /\ generator' = IF outcome = "ok" THEN 1 ELSE generator
    /\ _initialized' = InitializedAfter(outcome)
    /\ coro' = [coro EXCEPT ![c].pc = IF outcome = "ok" THEN "returned" ELSE "raised"]
    /\ req' = IF coro[c].waiter = 0 THEN req
              ELSE [req EXCEPT ![coro[c].waiter].pc =
                        IF outcome = "ok" THEN "pipeline" ELSE "raised"]
    /\ UNCHANGED <<embedder, vector_store, nCoro, qVars, auxVars, retrVars, storeVars>>

\* A background task created by asyncio.create_task() gets its first turn.
TaskStart(c) ==
    /\ coro[c].pc = "scheduled"
    /\ \E fail \in BOOLEAN : InitializeBegin(c, "task", 0, fail)
    /\ UNCHANGED <<nCoro, req, qVars, auxVars, retrVars, storeVars>>

\* routes/rag.py initialize_rag (and main.py startup): await initialize().
RouteInitialize ==
    /\ nCoro < MaxCoro
    /\ nCoro' = nCoro + 1
    /\ \E fail \in BOOLEAN : InitializeBegin(nCoro + 1, "direct", 0, fail)
    /\ UNCHANGED <<req, qVars, auxVars, retrVars, storeVars>>

\* routes/conversation.py lines 176-200, service not initialized: schedule
\* initialize() as a background task, take the generator singleton and
\* suspend in generator.generate() with the history as only context.
ConvRouteFallback(r) ==
    /\ req[r].pc = "idle"
    /\ ~_initialized
    /\ nCoro < MaxCoro
    /\ nCoro' = nCoro + 1
    /\ coro' = [coro EXCEPT ![nCoro + 1] = [pc |-> "scheduled", kind |-> "task",
                                              waiter |-> 0, prior |-> 0]]
    /\ req' = [req EXCEPT ![r] = [@ EXCEPT !.pc = "fallbackGenerate", !.kind = "conv",
                                            !.arrivedNotReady = TRUE]]
    /\ UNCHANGED <<svcVars, failures, qVars, auxVars, retrVars, storeVars>>

\* routes/conversation.py lines 202-207: the fallback response.
FallbackRespond(r) ==
    /\ req[r].pc = "fallbackGenerate"
    /\ req' = [req EXCEPT ![r] = [@ EXCEPT !.pc = "responded", !.marker = TRUE,
                                            !.retrieved = FALSE]]
    /\ UNCHANGED <<svcVars, coro, nCoro, failures, qVars, auxVars, retrVars, storeVars>>

\* routes/conversation.py lines 208-218, service initialized: the route calls
\* query_with_conversation, whose own check (line 284) then sees True.
ConvRouteReady(r) ==
    /\ req[r].pc = "idle"
    /\ _initialized
    /\ req' = [req EXCEPT ![r] = [@ EXCEPT !.pc = "pipeline", !.kind = "conv"]]
    /\ UNCHANGED <<svcVars, coro, nCoro, failures, qVars, auxVars, retrVars, storeVars>>

\* RAGService.query / query_with_conversation lines 101-102 and 284-285,
\* called on a service that is not initialized: `await self.initialize()`
\* runs initialize() inside the caller up to its first suspension point.
ServiceQueryNotReady(r) ==
    /\ req[r].pc = "idle"
    /\ ~_initialized
    /\ nCoro < MaxCoro
    /\ nCoro' = nCoro + 1
    /\ \E fail \in BOOLEAN :
          /\ InitializeBegin(nCoro + 1, "direct", r, fail)
          /\ req' = [req EXCEPT ![r] = [@ EXCEPT !.pc = IF fail THEN "raised" ELSE "awaitInit",
                                                  !.kind = "service",
                                                  !.arrivedNotReady = TRUE,
                                                  !.waited = TRUE]]
    /\ UNCHANGED <<qVars, auxVars, retrVars, storeVars>>

\* The same entry on an initialized service: straight to the pipeline.
ServiceQueryReady(r) ==
    /\ req[r].pc = "idle"
    /\ _initialized
    /\ req' = [req EXCEPT ![r] = [@ EXCEPT !.pc = "pipeline", !.kind = "service"]]
    /\ UNCHANGED <<svcVars, coro, nCoro, failures, qVars, auxVars, retrVars, storeVars>>

\* The retrieval + generation pipeline ends (detailed in SpecQuery): the
\* response's model_used is generator.model, with no fallback suffix.
PipelineRespond(r) ==
    /\ req[r].pc = "pipeline"
    /\ req' = [req EXCEPT ![r] = [@ EXCEPT !.pc = "responded", !.marker = FALSE,
                                            !.retrieved = TRUE]]
    /\ UNCHANGED <<svcVars, coro, nCoro, failures, qVars, auxVars, retrVars, storeVars>>

\* =================================================== the query pipeline
MaxDocs == 3        \* documents that can be in the knowledge base
MaxHistory == 7     \* turns in the longest conversation history supplied

NoneStr == "None"   \* Python's None for string-valued arguments

DocIds == 1..MaxDocs

\* Scores the similarity search can report, in hundredths: below the
\* retriever floor, between floor and conversational cutoff, and at the
\* cutoff.
ScoreValues == {20, 40, 50}

\* rag_service.py line 68: Retriever(min_score_threshold=0.3)
min_score_threshold == 30

\* rag_service.py lines 162 and 314: `search_results[0].score < 0.5`
ConversationalCutoff == 50

\* rag_service.py lines 228 and 386: content[:300] + "..."
SourceContentLimit == 300

\* metadata['category'] of the stored documents
Category(d) == IF d % 2 = 1 THEN "focus_productivity" ELSE "study_techniques"

\* Document.content: the text of document d and its length in characters
ContentLen(d) == CASE d = 1 -> 120 [] d = 2 -> 300 [] OTHER -> 300 + d
DocContent(d) == [doc |-> d, len |-> ContentLen(d), ellipsis |-> FALSE]

Min(a, b) == IF a < b THEN a ELSE b

\* ------------------------------------------------ RAGService._is_stats_query
\* A query is its sequence of words; punctuation and spacing play no role in
\* the six patterns, whose \b...\b groups match whole words only.
Queries ==
    { <<"Hey">>,
      <<"How", "am", "I", "doing", "this", "week">>,
      <<"show", "me", "my", "stats">>,
      <<"analyze", "my", "stats">> }

\* str.lower() on one word
Lower(w) ==
    CASE w = "Hey" -> "hey"
      [] w = "How" -> "how"
      [] w = "I" -> "i"
      [] OTHER -> w

query_lower(query) == [i \in 1..Len(query) |-> Lower(query[i])]

\* r'\b(A)\b.*\b(B)\b': a word of A, and later a word of B
WordThenLater(t, A, B) ==
    \E i \in 1..Len(t) : \E j \in 1..Len(t) : i < j /\ t[i] \in A /\ t[j] \in B

StatsPattern1(t) ==
    WordThenLater(t, {"analyze", "analyse"}, {"trend", "stat", "progress", "performance"})
StatsPattern2(t) ==
    WordThenLater(t, {"my", "mine"}, {"trend", "stat", "progress", "performance", "session"})
StatsPattern3(t) ==
    \E i \in 1..Len(t) :
        /\ i + 2 <= Len(t)
        /\ t[i] = "how" /\ t[i + 1] \in {"am", "have"} /\ t[i + 2] = "i"
        /\ \E j \in (i + 3)..Len(t) : t[j] \in {"doing", "performing", "progressing"}
StatsPattern4(t) ==
    \E i \in 1..Len(t) :
        /\ i + 2 <= Len(t)
        /\ t[i] \in {"show", "give", "tell"} /\ t[i + 1] = "me" /\ t[i + 2] = "my"
StatsPattern5(t) ==
    \E i \in 1..Len(t) :
        /\ i + 2 <= Len(t)
        /\ t[i] = "my" /\ t[i + 1] \in {"focus", "productivity", "distraction"}
        /\ t[i + 2] \in {"pattern", "trend", "stat"}
StatsPattern6(t) ==
    \E i \in 1..Len(t) :
        /\ i + 1 <= Len(t)
        /\ t[i] \in {"recent", "latest"} /\ t[i + 1] \in {"session", "progress", "performance"}

_is_stats_query(query) ==
    LET t == query_lower(query) IN
    \/ StatsPattern1(t) \/ StatsPattern2(t) \/ StatsPattern3(t)
    \/ StatsPattern4(t) \/ StatsPattern5(t) \/ StatsPattern6(t)

\* ------------------------------------------------ RAGService._fetch_user_stats
\* user_stats_context: None (never fetched), {} (user missing or the fetch
\* failed) or a snapshot dict.
NoStats == [tag |-> "None", total_sessions |-> 0, current_streak |-> 0, longest_streak |-> 0]
EmptyDict == [tag |-> "empty", total_sessions |-> 0, current_streak |-> 0, longest_streak |-> 0]
Snapshots ==
    { [tag |-> "snapshot", total_sessions |-> 0, current_streak |-> 0, longest_streak |-> 0],
      [tag |-> "snapshot", total_sessions |-> 12, current_streak |-> 3, longest_streak |-> 5] }
FetchResults == {EmptyDict} \cup Snapshots

\* Python truthiness of the dict
Truthy(stats) == stats.tag = "snapshot"

\* Variant: `if is_stats_query and user_id`, the accessor not tested.
ShouldFetchIgnoringDb(is_stats, user_id, db) == is_stats /\ user_id # NoneStr

\* lines 110 and 297: `if is_stats_query and user_id and db`
ShouldFetch(is_stats, user_id, db) == is_stats /\ user_id # NoneStr /\ db

\* ------------------------------------------------------- Retriever
\* QdrantVectorStore.search: the documents that match the filter, best
\* first, at most top_k of them, ranked from 0.  The scores are the embedding
\* model's and are not determined here.
Matching(filter) == {d \in kb : filter = NoneStr \/ Category(d) = filter}

SearchOutcomes(top_k, filter) ==
    LET M == Matching(filter)
        n == Min(top_k, Cardinality(M))
    IN  { [i \in 1..n |-> [id |-> f[i][1], score |-> f[i][2], rank |-> i - 1]] :
            f \in { g \in [1..n -> M \X ScoreValues] :
                      /\ \A i, j \in 1..n : i # j => g[i][1] # g[j][1]
                      /\ \A i \in 1..n : i < n => g[i][2] >= g[i + 1][2] } }

\* Variant: the floor of the constructor's default (0.0) instead of the
\* configured one.
FilterByScoreDefault(results, self_min_score_threshold) ==
    SelectSeq(results, LAMBDA r : r.score >= 0)

\* line 212: [r for r in results if r.score >= self.min_score_threshold]
FilterByScore(results, self_min_score_threshold) ==
    SelectSeq(results, LAMBDA r : r.score >= self_min_score_threshold)

\* Variant: no id is ever taken as seen.
SeenNever(doc_id, seen_ids) == FALSE

\* line 225: doc_id in seen_ids
Seen(doc_id, seen_ids) == doc_id \in seen_ids

\* lines 220-227: keep the first result of every document id.
RECURSIVE Deduplicate(_, _)
Deduplicate(results, seen_ids) ==
    IF results = <<>> THEN <<>>
    ELSE IF Seen(Head(results).id, seen_ids)
         THEN Deduplicate(Tail(results), seen_ids)
         ELSE <<Head(results)>> \o Deduplicate(Tail(results), seen_ids \cup {Head(results).id})

\* Retriever._post_process of a retriever whose min_score_threshold is
\* given: drop results under the floor, then the duplicates.
_post_process(self_min_score_threshold, results) ==
    Deduplicate(FilterByScore(results, self_min_score_threshold), {})

\* ------------------------------------------------------- prompts
\* conversation_history[-n:]
LastN(history, n) ==
    IF Len(history) <= n THEN history
    ELSE SubSeq(history, Len(history) - n + 1, Len(history))

\* context_docs[:n]
FirstN(docs, n) == SubSeq(docs, 1, Min(n, Len(docs)))

\* What one generator.generate() call is given: which template the text was
\* built from, whether it carries PRODUCTIVITY_COACH_PROMPT, the document
\* contents in it, the statistics printed in it, the history turns in it and
\* where they stand relative to the user's question.
GeneratorCall(kind, persona, docs, stats, history, position) ==
    [kind |-> kind, persona |-> persona, docs |-> docs,
     total_sessions |-> IF Truthy(stats) THEN stats.total_sessions ELSE -1,
     current_streak |-> IF Truthy(stats) THEN stats.current_streak ELSE -1,
     longest_streak |-> IF Truthy(stats) THEN stats.longest_streak ELSE -1,
     history |-> history,
     history_position |-> IF history = <<>> THEN "none" ELSE position]

\* rag_service.py lines 172-176: persona prompt + the user message
conversational_prompt == GeneratorCall("conversational", TRUE, <<>>, NoStats, <<>>, "none")

\* prompts.py build_stats_analysis_prompt (STATS_ANALYSIS_PROMPT, the
\* profile block, the tips); rag_service.py lines 355-360 append the last
\* three history turns under "Recent Conversation:" when there is a history,
\* behind the text that already ends with the user's question.
build_stats_analysis_prompt(user_stats, context_documents, history) ==
    GeneratorCall("stats_analysis", FALSE, context_documents, user_stats,
                  LastN(history, 3), "after_question")

\* prompts.py build_conversation_aware_prompt: the system prompt (the
\* persona by default), the last six history turns under "Previous
\* Conversation:", the excerpts, then "Current User Message".
build_conversation_aware_prompt(context_documents, history) ==
    GeneratorCall("conversation_aware", TRUE, context_documents, NoStats,
                  LastN(history, 6), "before_question")

\* generate(query, context_documents=context_docs): the generator formats
\* the documents itself (base_generator._format_prompt), no system prompt.
documents_prompt(context_docs) ==
    GeneratorCall("documents", FALSE, context_docs, NoStats, <<>>, "none")

\* ------------------------------------------------------- RAGQueryResponse
NoSources == [present |-> FALSE, items |-> <<>>]        \* sources=None
SourceList(items) == [present |-> TRUE, items |-> items] \* sources=[...]

NoResponse == [answer |-> "none", sources |-> NoSources, model_used |-> "none"]

\* lines 228 and 386: content[:300] + "..." if len(content) > 300 else content
SourceContent(content) ==
    IF content.len > SourceContentLimit
    THEN [doc |-> content.doc, len |-> SourceContentLimit, ellipsis |-> TRUE]
    ELSE content

\* lines 226-235 and 384-393: one SourceDocument per search result
SourceDocuments(search_results) ==
    [i \in 1..Len(search_results) |->
        [content |-> SourceContent(DocContent(search_results[i].id)),
         score |-> search_results[i].score,
         category |-> Category(search_results[i].id)]]

\* lines 143-148: the fixed ingestion-instructions answer
EmptyKbResponse(include_sources) ==
    [answer |-> "empty_kb_message",
     sources |-> IF include_sources THEN SourceList(<<>>) ELSE NoSources,
     model_used |-> "system_message"]

\* ------------------------------------------------------- branch selection
\* Variant: `search_results[0].score <= 0.5`.
is_conversationalInclusive(search_results) ==
    search_results = <<>> \/ search_results[1].score <= ConversationalCutoff

\* lines 162 and 314: not search_results or search_results[0].score < 0.5
is_conversational(search_results) ==
    search_results = <<>> \/ search_results[1].score < ConversationalCutoff

\* The branch a call takes once the retriever has answered: query lines
\* 164 / 197 / 213, query_with_conversation lines 316 / 346 / 367.
Branch(entry, is_conv, is_stats, stats) ==
    IF entry = "query"
    THEN IF is_conv THEN "conversational"
         ELSE IF is_stats /\ Truthy(stats) THEN "stats_analysis"
         ELSE "standard_rag"
    ELSE IF is_conv /\ ~is_stats THEN "conversational"
         ELSE IF is_stats /\ Truthy(stats) THEN "stats_analysis"
         ELSE "standard_rag"

\* line 194 / 341: context_docs
context_docs(search_results) ==
    [i \in 1..Len(search_results) |-> DocContent(search_results[i].id)]

\* Variant: every retrieved document handed to the stats prompt.
StatsTipsAll(docs) == docs

\* lines 204 and 351: context_docs[:2]
StatsTips(docs) == FirstN(docs, 2)

\* What the branch hands to generator.generate().
BranchPrompt(entry, branch, search_results, stats, history) ==
    IF entry = "query"
    THEN CASE branch = "conversational" -> conversational_prompt
           [] branch = "stats_analysis" ->
                build_stats_analysis_prompt(stats, StatsTips(context_docs(search_results)), <<>>)
           [] OTHER -> documents_prompt(context_docs(search_results))
    ELSE CASE branch = "conversational" -> build_conversation_aware_prompt(<<>>, history)
           [] branch = "stats_analysis" ->
                build_stats_analysis_prompt(stats, StatsTips(context_docs(search_results)), history)
           [] OTHER -> build_conversation_aware_prompt(context_docs(search_results), history)

\* The sources of the response: query lines 186 and 224-235,
\* query_with_conversation lines 335 and 382-393.
ResponseSources(entry, branch, include_sources, search_results) ==
    IF entry = "query"
    THEN IF ~include_sources THEN NoSources
         ELSE IF branch = "conversational" THEN SourceList(<<>>)
         ELSE SourceList(SourceDocuments(search_results))
    ELSE IF branch = "conversational" THEN SourceList(<<>>)
         ELSE IF include_sources /\ search_results # <<>>
              THEN SourceList(SourceDocuments(search_results))
              ELSE NoSources

\* ------------------------------------------------------- the call
Entries == {"query", "query_with_conversation"}
TopKs == {1, 3}
CategoryFilters == {NoneStr, "focus_productivity"}
UserIds == {NoneStr, "u1"}

\* A history of n turns: user and assistant alternate; content is the index.
Turns(n) == [i \in 1..n |-> [role |-> IF i % 2 = 1 THEN "user" ELSE "assistant", content |-> i]]
Histories == {Turns(0), Turns(MaxHistory)}

IdleQuery ==
    [pc |-> "idle", entry |-> "none", query |-> <<>>, top_k |-> 0,
     category_filter |-> NoneStr, include_sources |-> FALSE, user_id |-> NoneStr,
     db |-> FALSE, history |-> <<>>, is_stats_query |-> FALSE,
     user_stats_context |-> NoStats, kb_check |-> "none", search_results |-> <<>>,
     is_conversational |-> FALSE,
     branch |-> "none", dbReads |-> 0, retrieverCalls |-> 0, generatorCalls |-> <<>>,
     raised_steps |-> {}, response |-> NoResponse]

\* Where the call goes after the statistics step: query checks the
\* knowledge base first (line 122), query_with_conversation retrieves.
AfterStats(entry) == IF entry = "query" THEN "get_collection_info" ELSE "retrieve"

\* query lines 101-112 / query_with_conversation lines 284-298 on a READY
\* service: detect a statistics request and decide whether to read the
\* data store.
CallQuery(entry, query, top_k, category_filter, include_sources, user_id, db, history) ==
    /\ q.pc = "idle"
    /\ LET is_stats == _is_stats_query(query) IN
       q' = [IdleQuery EXCEPT
               !.pc = IF ShouldFetch(is_stats, user_id, db)
                      THEN "fetch_user_stats" ELSE AfterStats(entry),
               !.entry = entry, !.query = query, !.top_k = top_k,
               !.category_filter = category_filter,
               !.include_sources = include_sources,
               !.user_id = user_id, !.db = db,
               !.history = IF entry = "query" THEN <<>> ELSE history,
               !.is_stats_query = is_stats]
    /\ UNCHANGED <<kb, initVars, auxVars, retrVars, storeVars>>

\* _fetch_user_stats returns: a snapshot, or {} when the user is unknown
\* (lines 465-466).
FetchUserStats(result) ==
    /\ q.pc = "fetch_user_stats"
    /\ q' = [q EXCEPT !.pc = AfterStats(q.entry),
                      !.user_stats_context = result,
                      !.dbReads = @ + 1]
    /\ UNCHANGED <<kb, initVars, auxVars, retrVars, storeVars>>

\* A database call inside _fetch_user_stats raises: the except clause of
\* lines 522-524 logs the error and returns {}, and the query goes on.
FetchUserStatsRaises ==
    /\ q.pc = "fetch_user_stats"
    /\ q' = [q EXCEPT !.pc = AfterStats(q.entry),
                      !.user_stats_context = EmptyDict,
                      !.dbReads = @ + 1,
                      !.raised_steps = @ \cup {"fetch_user_stats"}]
    /\ UNCHANGED <<kb, initVars, auxVars, retrVars, storeVars>>

\* query lines 120-151.  outcome "info": the store answers with its point
\* count; "unexpected_response": get_collection_info caught Qdrant's error
\* and returned {} (qdrant_store.py 355-357), so .get('points_count', 0)
\* is 0; "exception": any other error, caught at line 149.
GetCollectionInfo(outcome) ==
    /\ q.pc = "get_collection_info"
    /\ LET doc_count == IF outcome = "info" THEN Cardinality(kb) ELSE 0 IN
       IF outcome # "exception" /\ doc_count = 0
       THEN q' = [q EXCEPT !.pc = "responded", !.kb_check = outcome,
                           !.branch = "empty_kb",
                           !.response = EmptyKbResponse(q.include_sources)]
       ELSE q' = [q EXCEPT !.pc = "retrieve", !.kb_check = outcome,
                           !.raised_steps = IF outcome = "exception"
                                            THEN @ \cup {"get_collection_info"}
                                            ELSE @]
    /\ UNCHANGED <<kb, initVars, auxVars, retrVars, storeVars>>

\* retriever.retrieve() answers (query lines 155-219, query_with_conversation
\* lines 305-379): classify the turn, build the prompt of the branch and
\* call generator.generate(), where the call suspends.
Retrieve ==
    /\ q.pc = "retrieve"
    /\ \E raw \in SearchOutcomes(q.top_k, q.category_filter) :
          LET results == _post_process(min_score_threshold, raw)
              is_conv == is_conversational(results)
              branch == Branch(q.entry, is_conv, q.is_stats_query, q.user_stats_context)
          IN q' = [q EXCEPT !.pc = "generate",
                            !.search_results = results,
                            !.is_conversational = is_conv,
                            !.retrieverCalls = @ + 1,
                            !.branch = branch,
                            !.generatorCalls = Append(@,
                                  BranchPrompt(q.entry, branch, results,
                                               q.user_stats_context, q.history))]
    /\ UNCHANGED <<kb, initVars, auxVars, retrVars, storeVars>>

\* retriever.retrieve() raises (embedding or search error): logged and
\* re-raised (lines 244-257, 402-404).
RetrieveRaises ==
    /\ q.pc = "retrieve"
    /\ q' = [q EXCEPT !.pc = "raised", !.retrieverCalls = @ + 1,
                      !.raised_steps = @ \cup {"retrieve"}]
    /\ UNCHANGED <<kb, initVars, auxVars, retrVars, storeVars>>

\* generator.generate() answers: the response is assembled.
Generate ==
    /\ q.pc = "generate"
    /\ q' = [q EXCEPT !.pc = "responded",
                      !.response = [answer |-> "generated",
                                    sources |-> ResponseSources(q.entry, q.branch,
                                                   q.include_sources, q.search_results),
                                    model_used |-> "generator.model"]]
    /\ UNCHANGED <<kb, initVars, auxVars, retrVars, storeVars>>

\* generator.generate() raises: logged and re-raised.
GenerateRaises ==
    /\ q.pc = "generate"
    /\ q' = [q EXCEPT !.pc = "raised", !.raised_steps = @ \cup {"generate"}]
    /\ UNCHANGED <<kb, initVars, auxVars, retrVars, storeVars>>

\* The caller has the response (or the exception); the service is idle.
Return ==
    /\ q.pc \in {"responded", "raised"}
    /\ q' = IdleQuery
    /\ UNCHANGED <<kb, initVars, auxVars, retrVars, storeVars>>

NextQuery ==
    \/ \E entry \in Entries, query \in Queries, top_k \in TopKs,
          category_filter \in CategoryFilters, include_sources \in BOOLEAN,
          user_id \in UserIds, db \in BOOLEAN, history \in Histories :
            CallQuery(entry, query, top_k, category_filter, include_sources,
                      user_id, db, history)
    \/ \E result \in FetchResults : FetchUserStats(result)
    \/ FetchUserStatsRaises
    \/ \E outcome \in {"info", "unexpected_response", "exception"} : GetCollectionInfo(outcome)
    \/ Retrieve
    \/ RetrieveRaises
    \/ Generate
    \/ GenerateRaises
    \/ Return

\* ------------------------------------------------- Retriever.retrieve
MaxRaw == 3

\* min_score_threshold of a Retriever: the constructor's default 0.0, the
\* service's 0.3, the 0.4 of test_score_threshold.
Thresholds == {0, min_score_threshold, 40}

\* Whatever vector_store.search() may hand back: any list of results, ranked
\* from 0, ids and scores unconstrained.
RawLists ==
    UNION { { [i \in 1..n |-> [id |-> f[i][1], score |-> f[i][2], rank |-> i - 1]] :
                f \in [1..n -> DocIds \X ScoreValues] } : n \in 0..MaxRaw }

\* Retriever.__init__ and no call in progress
IdleRetriever(threshold) ==
    [min_score_threshold |-> threshold, pc |-> "idle", top_k |-> 0,
     raw |-> <<>>, results |-> <<>>]

\* retrieve() is called: the query is preprocessed and embedder.embed_text()
\* awaited (lines 105-110).
RetrieverRetrieve(top_k) ==
    /\ retrieval.pc = "idle"
    /\ retrieval' = [retrieval EXCEPT !.pc = "embed_text", !.top_k = top_k]
    /\ UNCHANGED <<initVars, qVars, auxVars, storeVars>>

\* The embedding is there: the filter is built and vector_store.search()
\* awaited (lines 112-120).
EmbedText ==
    /\ retrieval.pc = "embed_text"
    /\ retrieval' = [retrieval EXCEPT !.pc = "search"]
    /\ UNCHANGED <<initVars, qVars, auxVars, storeVars>>

\* search() answers with some list raw: post-processing, return (lines 122-128).
Search ==
    /\ retrieval.pc = "search"
    /\ \E raw \in RawLists :
          retrieval' = [retrieval EXCEPT
                          !.pc = "returned", !.raw = raw,
                          !.results = _post_process(retrieval.min_score_threshold, raw)]
    /\ UNCHANGED <<initVars, qVars, auxVars, storeVars>>

\* embed_text() or search() raises: retrieve() has no except clause.
RetrieveStepRaises ==
    /\ retrieval.pc \in {"embed_text", "search"}
    /\ retrieval' = [retrieval EXCEPT !.pc = "raised"]
    /\ UNCHANGED <<initVars, qVars, auxVars, storeVars>>

\* The caller has the list (or the exception).
RetrieverDone ==
    /\ retrieval.pc \in {"returned", "raised"}
    /\ retrieval' = IdleRetriever(retrieval.min_score_threshold)
    /\ UNCHANGED <<initVars, qVars, auxVars, storeVars>>

NextRetriever ==
    \/ \E top_k \in TopKs : RetrieverRetrieve(top_k)
    \/ EmbedText
    \/ Search
    \/ RetrieveStepRaises
    \/ RetrieverDone

\* ------------------------------------------------- QdrantVectorStore
MaxStoreIds == 2
MaxBatch == 2
MaxStoreFailures == 1

StoreIds == 1..MaxStoreIds
Versions == {"v1", "v2"}

\* base_store.Document: id, content, metadata (the category and version
\* entries of examples.py; the version follows the content).
Documents ==
    { [id |-> i, content |-> v, metadata |-> [category |-> "test", version |-> v]] :
        i \in StoreIds, v \in Versions }

\* Lists of at most MaxBatch documents; an embedding list is its length.
Batches == UNION { [1..n -> Documents] : n \in 0..MaxBatch }
EmbeddingLists == 0..MaxBatch

\* The payload indexes initialize() creates, in its order
IndexFields == <<"category", "user_id", "session_id">>

\* A point of the collection: the payload add_documents built (content and
\* the metadata entries), or no point under this id.
NoPoint == [present |-> FALSE, content |-> "", metadata |-> [category |-> "", version |-> ""]]
Point(doc) == [present |-> TRUE, content |-> doc.content, metadata |-> doc.metadata]

\* cleared records that some clear() has deleted the collection.
NoCollection ==
    [exists |-> FALSE, indexes |-> {}, points |-> [i \in StoreIds |-> NoPoint],
     cleared |-> FALSE]

IdleOp ==
    [kind |-> "none", pc |-> "idle", documents |-> <<>>, embeddings |-> 0,
     document_id |-> 0, top_k |-> 0, results |-> <<>>, result |-> FALSE,
     error |-> "none", replaced |-> {}]

\* A Qdrant request may fail with UnexpectedResponse while failures remain.
MayFailStore == storeFailures < MaxStoreFailures

\* initialize() is called: client.get_collections() is awaited (line 99).
StoreInitialize ==
    /\ op.pc = "idle"
    /\ op' = [IdleOp EXCEPT !.kind = "initialize", !.pc = "get_collections"]
    /\ UNCHANGED <<coll, storeFailures, initVars, qVars, auxVars, retrVars>>

\* get_collections() answers (lines 99-107): return when the collection is
\* listed, else await create_collection().
GetCollections ==
    /\ op.pc = "get_collections"
    /\ op' = [op EXCEPT !.pc = IF coll.exists THEN "returned" ELSE "create_collection"]
    /\ UNCHANGED <<coll, storeFailures, initVars, qVars, auxVars, retrVars>>

\* create_collection() answers (lines 109-116): Qdrant creates the
\* collection, or refuses with UnexpectedResponse when it exists already.
CreateCollection ==
    /\ op.pc = "create_collection"
    /\ IF coll.exists
       THEN /\ op' = [op EXCEPT !.pc = "raised", !.error = "UnexpectedResponse"]
            /\ coll' = coll
       ELSE /\ op' = [op EXCEPT !.pc = "create_payload_index_1"]
            /\ coll' = [coll EXCEPT !.exists = TRUE, !.indexes = {},
                                    !.points = NoCollection.points]
    /\ UNCHANGED <<storeFailures, initVars, qVars, auxVars, retrVars>>

\* The n-th create_payload_index() answers (lines 120-136); after the third
\* initialize() returns.
CreatePayloadIndex(n) ==
    /\ op.pc = CASE n = 1 -> "create_payload_index_1"
                 [] n = 2 -> "create_payload_index_2"
                 [] OTHER -> "create_payload_index_3"
    /\ coll' = [coll EXCEPT !.indexes = @ \cup {IndexFields[n]}]
    /\ op' = [op EXCEPT !.pc = CASE n = 1 -> "create_payload_index_2"
                                 [] n = 2 -> "create_payload_index_3"
                                 [] OTHER -> "returned"]
    /\ UNCHANGED <<storeFailures, initVars, qVars, auxVars, retrVars>>

\* A request of initialize() fails with UnexpectedResponse: logged and
\* raised (lines 140-142); inside clear() it is logged and raised once
\* more (lines 331-333).
InitializeFails ==
    /\ op.kind \in {"initialize", "clear"}
    /\ op.pc \in {"get_collections", "create_collection", "create_payload_index_1",
                  "create_payload_index_2", "create_payload_index_3"}
    /\ MayFailStore
    /\ op' = [op EXCEPT !.pc = "raised", !.error = "UnexpectedResponse"]
    /\ storeFailures' = storeFailures + 1
    /\ UNCHANGED <<coll, initVars, qVars, auxVars, retrVars>>

\* Variant: no length check, zip() pairs what it can.
LengthsDifferIgnored(documents, embeddings) == FALSE

\* line 160: len(documents) != len(embeddings)
LengthsDiffer(documents, embeddings) == Len(documents) # embeddings

\* lines 172-197: zip(documents, embeddings) stops at the shorter list
Zip(documents, embeddings) == SubSeq(documents, 1, Min(Len(documents), embeddings))

\* Variant: a point is written only under an id that holds none.
UpsertPointIfAbsent(points, doc) ==
    IF points[doc.id].present THEN points ELSE [points EXCEPT ![doc.id] = Point(doc)]

\* Qdrant's upsert of one PointStruct(id=doc.id, ...): the point under that
\* id is written, replacing the one that was there.
UpsertPoint(points, doc) == [points EXCEPT ![doc.id] = Point(doc)]

\* client.upsert(points=[...]): the points are written in list order.
RECURSIVE UpsertAll(_, _)
UpsertAll(points, docs) ==
    IF docs = <<>> THEN points
    ELSE UpsertAll(UpsertPoint(points, Head(docs)), Tail(docs))

\* add_documents() is called with some lists (lines 160-203): ValueError on lists of
\* different length, return on no document, else the points are built and
\* client.upsert() is awaited.
AddDocuments ==
    /\ op.pc = "idle"
    /\ \E documents \in Batches, embeddings \in EmbeddingLists :
          op' = IF LengthsDiffer(documents, embeddings)
                THEN [IdleOp EXCEPT !.kind = "add_documents", !.pc = "raised",
                                    !.documents = documents, !.embeddings = embeddings,
                                    !.error = "ValueError"]
                ELSE [IdleOp EXCEPT !.kind = "add_documents",
                                    !.pc = IF documents = <<>> THEN "returned" ELSE "upsert",
                                    !.documents = documents, !.embeddings = embeddings]
    /\ UNCHANGED <<coll, storeFailures, initVars, qVars, auxVars, retrVars>>

\* client.upsert() answers: the points are written; Qdrant refuses with
\* UnexpectedResponse when the collection does not exist, and add_documents
\* has no except clause.
Upsert ==
    /\ op.pc = "upsert"
    /\ IF coll.exists
       THEN LET written == Zip(op.documents, op.embeddings) IN
            /\ coll' = [coll EXCEPT !.points = UpsertAll(@, written)]
            /\ op' = [op EXCEPT !.pc = "returned",
                                !.replaced = {written[i].id : i \in
                                                {j \in 1..Len(written) :
                                                   coll.points[written[j].id].present}}]
       ELSE /\ coll' = coll
            /\ op' = [op EXCEPT !.pc = "raised", !.error = "UnexpectedResponse"]
    /\ UNCHANGED <<storeFailures, initVars, qVars, auxVars, retrVars>>

\* client.upsert() fails: nothing is written, the error propagates.
UpsertFails ==
    /\ op.pc = "upsert"
    /\ MayFailStore
    /\ op' = [op EXCEPT !.pc = "raised", !.error = "UnexpectedResponse"]
    /\ storeFailures' = storeFailures + 1
    /\ UNCHANGED <<coll, initVars, qVars, auxVars, retrVars>>

\* search() is called: client.search(limit=top_k) is awaited (lines 233-252).
StoreTopKs == {1, 5}

StoreSearch(top_k) ==
    /\ op.pc = "idle"
    /\ op' = [IdleOp EXCEPT !.kind = "search", !.pc = "search", !.top_k = top_k]
    /\ UNCHANGED <<coll, storeFailures, initVars, qVars, auxVars, retrVars>>

\* What client.search() may answer: at most top_k of the stored points, each
\* once, in the order of their scores (not determined here).
Hits(top_k) ==
    LET present == {i \in StoreIds : coll.points[i].present}
        n == Min(top_k, Cardinality(present))
    IN  { h \in [1..n -> present] : \A i, j \in 1..n : i # j => h[i] # h[j] }

\* client.search() answers (lines 254-288): one SearchResult per hit, the
\* document rebuilt from the hit's payload, ranked from 0.
SearchAnswers ==
    /\ op.pc = "search"
    /\ IF coll.exists
       THEN \E hits \in Hits(op.top_k) :
              op' = [op EXCEPT !.pc = "returned",
                               !.results = [i \in 1..Len(hits) |->
                                              [id |-> hits[i],
                                               content |-> coll.points[hits[i]].content,
                                               metadata |-> coll.points[hits[i]].metadata,
                                               rank |-> i - 1]]]
       ELSE op' = [op EXCEPT !.pc = "raised", !.error = "UnexpectedResponse"]
    /\ UNCHANGED <<coll, storeFailures, initVars, qVars, auxVars, retrVars>>

\* client.search() fails: the error propagates.
SearchFails ==
    /\ op.pc = "search"
    /\ MayFailStore
    /\ op' = [op EXCEPT !.pc = "raised", !.error = "UnexpectedResponse"]
    /\ storeFailures' = storeFailures + 1
    /\ UNCHANGED <<coll, initVars, qVars, auxVars, retrVars>>

\* delete_by_id() is called: client.delete(points_selector=[document_id])
\* is awaited (lines 301-305).
DeleteById(document_id) ==
    /\ op.pc = "idle"
    /\ op' = [IdleOp EXCEPT !.kind = "delete_by_id", !.pc = "delete",
                            !.document_id = document_id]
    /\ UNCHANGED <<coll, storeFailures, initVars, qVars, auxVars, retrVars>>

\* client.delete() answers (lines 306-311).  Qdrant removes the listed
\* points that exist and reports success whether or not there were any:
\* True is returned.  On a missing collection Qdrant answers with an error,
\* which is caught: False is returned.
Delete ==
    /\ op.pc = "delete"
    /\ IF coll.exists
       THEN /\ coll' = [coll EXCEPT !.points[op.document_id] = NoPoint]
            /\ op' = [op EXCEPT !.pc = "returned", !.result = TRUE]
       ELSE /\ coll' = coll
            /\ op' = [op EXCEPT !.pc = "returned", !.result = FALSE]
    /\ UNCHANGED <<storeFailures, initVars, qVars, auxVars, retrVars>>

\* client.delete() fails with UnexpectedResponse: caught, False is returned
\* (lines 309-311).
DeleteFails ==
    /\ op.pc = "delete"
    /\ MayFailStore
    /\ op' = [op EXCEPT !.pc = "returned", !.result = FALSE]
    /\ storeFailures' = storeFailures + 1
    /\ UNCHANGED <<coll, initVars, qVars, auxVars, retrVars>>

\* clear() is called: client.delete_collection() is awaited (lines 322-324).
StoreClear ==
    /\ op.pc = "idle"
    /\ op' = [IdleOp EXCEPT !.kind = "clear", !.pc = "delete_collection"]
    /\ UNCHANGED <<coll, storeFailures, initVars, qVars, auxVars, retrVars>>

\* delete_collection() answers: the collection and its points are gone;
\* clear() awaits self.initialize() (line 328), which starts with
\* get_collections().
DeleteCollection ==
    /\ op.pc = "delete_collection"
    /\ coll' = [NoCollection EXCEPT !.cleared = coll.cleared \/ coll.exists]
    /\ op' = [op EXCEPT !.pc = "get_collections"]
    /\ UNCHANGED <<storeFailures, initVars, qVars, auxVars, retrVars>>

\* delete_collection() fails with UnexpectedResponse: logged and raised
\* (lines 331-333).
DeleteCollectionFails ==
    /\ op.pc = "delete_collection"
    /\ MayFailStore
    /\ op' = [op EXCEPT !.pc = "raised", !.error = "UnexpectedResponse"]
    /\ storeFailures' = storeFailures + 1
    /\ UNCHANGED <<coll, initVars, qVars, auxVars, retrVars>>

\* The caller has the outcome of the store call.
StoreReturn ==
    /\ op.pc \in {"returned", "raised"}
    /\ op' = IdleOp
    /\ UNCHANGED <<coll, storeFailures, initVars, qVars, auxVars, retrVars>>

NextStore ==
    \/ StoreInitialize
    \/ GetCollections
    \/ CreateCollection
    \/ \E n \in 1..3 : CreatePayloadIndex(n)
    \/ InitializeFails
    \/ AddDocuments
    \/ Upsert
    \/ UpsertFails
    \/ \E top_k \in StoreTopKs : StoreSearch(top_k)
    \/ SearchAnswers
    \/ SearchFails
    \/ \E document_id \in StoreIds : DeleteById(document_id)
    \/ Delete
    \/ DeleteFails
    \/ StoreClear
    \/ DeleteCollection
    \/ DeleteCollectionFails
    \/ StoreReturn

\* ------------------------------------------ Retriever._preprocess_query
MaxQueryLen == 3

\* The characters of a query, one of each kind the three steps tell apart:
\* letters of both cases, punctuation, the space, a control character that
\* is whitespace (line feed) and one that is not (NUL).
Chars == {"a", "A", "?", "SP", "LF", "NUL"}
QueryStrings == UNION { [1..n -> Chars] : n \in 0..MaxQueryLen }

\* What str.strip() and the pattern \s take as whitespace
IsSpace(c) == c \in {"SP", "LF"}

\* The class [\x00-\x1F\x7F]
IsControl(c) == c \in {"LF", "NUL"}

RECURSIVE LStrip(_)
LStrip(str) ==
    IF str # <<>> /\ IsSpace(Head(str)) THEN LStrip(Tail(str)) ELSE str

RECURSIVE RStrip(_)
RStrip(str) ==
    IF str # <<>> /\ IsSpace(str[Len(str)])
    THEN RStrip(SubSeq(str, 1, Len(str) - 1)) ELSE str

\* line 148: query.strip()
Strip(str) == RStrip(LStrip(str))

\* line 149: re.sub(r'\s+', ' ', cleaned), every run of whitespace becomes
\* one space
RECURSIVE CollapseSpaces(_)
CollapseSpaces(str) ==
    IF str = <<>> THEN <<>>
    ELSE IF IsSpace(Head(str))
         THEN <<"SP">> \o CollapseSpaces(LStrip(str))
         ELSE <<Head(str)>> \o CollapseSpaces(Tail(str))

\* line 152: re.sub(r'[\x00-\x1F\x7F]', '', cleaned)
RemoveControl(str) == SelectSeq(str, LAMBDA c : ~IsControl(c))

_preprocess_query(query) == RemoveControl(CollapseSpaces(Strip(query)))

IdleCleaning == [pc |-> "idle", query |-> <<>>, cleaned |-> <<>>]

\* _preprocess_query(query) is called with some query and returns.
PreprocessQuery ==
    /\ cleaning.pc = "idle"
    /\ \E query \in QueryStrings :
          cleaning' = [pc |-> "returned", query |-> query,
                       cleaned |-> _preprocess_query(query)]
    /\ UNCHANGED <<coreVars, filtering, generation, embedding, route>>

PreprocessDone ==
    /\ cleaning.pc = "returned"
    /\ cleaning' = IdleCleaning
    /\ UNCHANGED <<coreVars, filtering, generation, embedding, route>>

NextPreprocess ==
    \/ PreprocessQuery
    \/ PreprocessDone

\* ------------------------------------------ Retriever._build_filter
MaxFilterValues == 2

FilterValues == 1..MaxFilterValues

\* Keys a caller's context may carry: the four filterable ones and one
\* that is not; keys an explicit filter may carry.
ContextKeys == {"user_id", "category", "tags", "session_id", "session_type"}
FilterKeys == {"category", "user_id", "source"}

\* A dict is a function on its keys; an Optional[dict] says whether it is
\* None.
Dicts(keys) == UNION { [K -> FilterValues] : K \in SUBSET keys }
EmptyDictF == [k \in {} |-> 1]
NoneDict == [none |-> TRUE, dict |-> EmptyDictF]
Some(d) == [none |-> FALSE, dict |-> d]
Optional(keys) == {NoneDict} \cup {Some(d) : d \in Dicts(keys)}

\* `if d:` a dict is truthy when it is not None and not empty
TruthyDict(opt) == ~opt.none /\ DOMAIN opt.dict # {}

\* line 179
filterable_fields == {"user_id", "category", "tags", "session_id"}

\* lines 180-182: the filterable entries of context
ContextFilters(context) ==
    IF TruthyDict(context)
    THEN [k \in DOMAIN context.dict \cap filterable_fields |-> context.dict[k]]
    ELSE EmptyDictF

\* Variant: the context entry wins over the explicit one.
UpdateKeepingOld(combined, other) ==
    [k \in DOMAIN combined \cup DOMAIN other |->
        IF k \in DOMAIN combined THEN combined[k] ELSE other[k]]

\* dict.update(other)
Update(combined, other) ==
    [k \in DOMAIN combined \cup DOMAIN other |->
        IF k \in DOMAIN other THEN other[k] ELSE combined[k]]

\* lines 175-190
_build_filter(context, filter_metadata) ==
    LET from_context == ContextFilters(context)
        combined == IF TruthyDict(filter_metadata)
                    THEN Update(from_context, filter_metadata.dict)
                    ELSE from_context
    IN  IF DOMAIN combined # {} THEN Some(combined) ELSE NoneDict

IdleFiltering ==
    [pc |-> "idle", context |-> NoneDict, filter_metadata |-> NoneDict,
     combined_filter |-> NoneDict]

\* retrieve() builds the filter it passes to vector_store.search()
\* (lines 112-120) from some context and some filter_metadata.
BuildFilter ==
    /\ filtering.pc = "idle"
    /\ \E context \in Optional(ContextKeys), filter_metadata \in Optional(FilterKeys) :
          filtering' = [pc |-> "returned", context |-> context,
                        filter_metadata |-> filter_metadata,
                        combined_filter |-> _build_filter(context, filter_metadata)]
    /\ UNCHANGED <<coreVars, cleaning, generation, embedding, route>>

BuildFilterDone ==
    /\ filtering.pc = "returned"
    /\ filtering' = IdleFiltering
    /\ UNCHANGED <<coreVars, cleaning, generation, embedding, route>>

NextFilter ==
    \/ BuildFilter
    \/ BuildFilterDone

\* ------------------------- HuggingFaceGenerator._call_api_with_retry
MaxRetries == 2

\* What one HTTP request can come to: a 200 with the generated text, a 503
\* (model loading), another status, asyncio.TimeoutError, aiohttp.ClientError.
ProviderOutcomes == {"200", "503", "other_status", "timeout", "network_error"}

\* A generator built with max_retries, no call in progress.  outcomes is
\* the list of what the requests of the current call came to.
IdleGeneration(max_retries) ==
    [max_retries |-> max_retries, pc |-> "idle", attempt |-> 0, requests |-> 0,
     outcomes |-> <<>>, error |-> "none"]

\* _call_api_with_retry is called: the loop starts with attempt 0 and the
\* first session.post() is awaited (lines 142-153).
CallApiWithRetry ==
    /\ generation.pc = "idle"
    /\ generation' = [generation EXCEPT !.pc = "post"]
    /\ UNCHANGED <<coreVars, cleaning, filtering, embedding, route>>

\* Variant: attempt <= self.max_retries
MayRetryInclusive(attempt, max_retries) == attempt <= max_retries

\* lines 163, 195, 203: attempt < self.max_retries
MayRetry(attempt, max_retries) == attempt < max_retries

\* The request is answered or fails (lines 153-213).  200: the text is
\* returned.  503: sleep and continue while attempts remain, else
\* RuntimeError.  Another status: RuntimeError, which `except Exception`
\* raises again.  Timeout or network error: sleep and continue while
\* attempts remain, else the loop ends and line 213 raises RuntimeError.
Respond(outcome) ==
    /\ generation.pc = "post"
    /\ LET g == [generation EXCEPT !.requests = @ + 1,
                                   !.outcomes = Append(@, outcome)]
           retry == MayRetry(generation.attempt, generation.max_retries)
       IN  generation' =
             CASE outcome = "200" -> [g EXCEPT !.pc = "returned"]
               [] outcome = "other_status" ->
                    [g EXCEPT !.pc = "raised", !.error = "RuntimeError"]
               [] OTHER ->
                    IF retry THEN [g EXCEPT !.pc = "sleep"]
                    ELSE [g EXCEPT !.pc = "raised", !.error = "RuntimeError"]
    /\ UNCHANGED <<coreVars, cleaning, filtering, embedding, route>>

\* asyncio.sleep() is over: `continue`, the next attempt posts again.
SleepDone ==
    /\ generation.pc = "sleep"
    /\ generation' = [generation EXCEPT !.pc = "post", !.attempt = @ + 1]
    /\ UNCHANGED <<coreVars, cleaning, filtering, embedding, route>>

\* The caller has the text (or the exception).
GenerationDone ==
    /\ generation.pc \in {"returned", "raised"}
    /\ generation' = IdleGeneration(generation.max_retries)
    /\ UNCHANGED <<coreVars, cleaning, filtering, embedding, route>>

NextGenerator ==
    \/ CallApiWithRetry
    \/ \E outcome \in ProviderOutcomes : Respond(outcome)
    \/ SleepDone
    \/ GenerationDone

\* ------------------------------- OpenAIEmbedder / SentenceTransformerEmbedder
MaxTexts == 3          \* longest list handed to embed_batch
MaxBatchSize == 2      \* largest batch_size an embedder is built with
MaxEmbedRetries == 1   \* largest max_retries an OpenAIEmbedder is built with

EmbedderKinds == {"openai", "sentence_transformer"}
TextIds == {1, 2}      \* two different texts
TestText == 0          \* the string "test" of _validate_connection
dimension == 1536      \* MODEL_DIMENSIONS["text-embedding-3-small"]

RECURSIVE SeqsUpTo(_, _)
SeqsUpTo(S, n) ==
    IF n = 0 THEN {<<>>}
    ELSE LET shorter == SeqsUpTo(S, n - 1)
         IN  shorter \cup {Append(l, x) : l \in {m \in shorter : Len(m) = n - 1}, x \in S}

TextLists == SeqsUpTo(TextIds, MaxTexts)

\* The vector the model computes for a text: whose it is, and its length.
Embedding(text) == [of |-> text, len |-> dimension]

\* What one embeddings.create() request can come to: a response with one
\* vector per input, in input order; such a response with a vector of
\* another length; RateLimitError; an APIError with a 5xx or a 4xx status;
\* an APIConnectionError (an APIError that has no status_code); another
\* OpenAIError.
CreateOutcomes ==
    {"ok", "wrong_dimension", "rate_limit", "status_5xx", "status_4xx",
     "connection_error", "openai_error"}

\* The status_code of an APIError with a status: 503 or 400.
StatusOf(outcome) == IF outcome = "status_5xx" THEN 503 ELSE 400

\* An embedder with no call in progress.  tries lists what the requests of
\* the current _embed_batch_with_retry call came to, requests counts the
\* provider calls of the current embed_batch call.
IdleEmbedding(kind, batch_size, max_retries, validated) ==
    [kind |-> kind, batch_size |-> batch_size, max_retries |-> max_retries,
     _validated |-> validated, pc |-> "idle", phase |-> "none",
     texts |-> <<>>, i |-> 0, batch |-> <<>>, all_embeddings |-> <<>>,
     attempt |-> 0, requests |-> 0, tries |-> <<>>,
     result |-> <<>>, error |-> "none"]

\* Variant: texts[i:i + self.batch_size + 1]
BatchOverlapping(texts, i, batch_size) ==
    SubSeq(texts, i + 1, Min(i + batch_size + 1, Len(texts)))

\* line 166: texts[i:i + self.batch_size]
Batch(texts, i, batch_size) ==
    SubSeq(texts, i + 1, Min(i + batch_size, Len(texts)))

\* line 174: all_embeddings.extend(embeddings)
Extend(all_embeddings, embeddings) == all_embeddings \o embeddings

\* lines 162-173: the loop reaches i and awaits _embed_batch_with_retry on
\* the batch that starts there, or is over and all_embeddings is returned
\* (line 180).
LoopAt(e, i) ==
    IF i < Len(e.texts)
    THEN [e EXCEPT !.pc = "create", !.phase = "batch", !.i = i,
                   !.batch = Batch(e.texts, i, e.batch_size),
                   !.attempt = 0, !.tries = <<>>]
    ELSE [e EXCEPT !.pc = "returned", !.phase = "none", !.i = i,
                   !.result = e.all_embeddings]

\* embed_batch(texts) is called.  An empty list is answered at once (lines
\* 153-155, 104-106).  SentenceTransformerEmbedder hands the whole list to
\* the executor (lines 109-115).  OpenAIEmbedder validates the connection
\* on first use (lines 158-159, 270-273), else enters the loop.
EmbedBatch ==
    /\ embedding.pc = "idle"
    /\ \E texts \in TextLists :
         LET e == [embedding EXCEPT !.texts = texts]
         IN  embedding' =
               IF texts = <<>> THEN [e EXCEPT !.pc = "returned", !.result = <<>>]
               ELSE IF e.kind = "sentence_transformer" THEN [e EXCEPT !.pc = "encode"]
               ELSE IF ~e._validated
                    THEN [e EXCEPT !.pc = "create", !.phase = "validate",
                                   !.batch = <<TestText>>]
               ELSE LoopAt(e, 0)
    /\ UNCHANGED <<coreVars, cleaning, filtering, generation, route>>

\* model.encode(texts, batch_size=...) in the executor: one vector per
\* text, in order (lines 110-122, 129-135).
Encode ==
    /\ embedding.pc = "encode"
    /\ embedding' = [embedding EXCEPT
                       !.pc = "returned", !.requests = @ + 1,
                       !.result = [k \in 1..Len(embedding.texts) |->
                                     Embedding(embedding.texts[k])]]
    /\ UNCHANGED <<coreVars, cleaning, filtering, generation, route>>

\* Variant: e.status_code >= 400
IsClientOrServerError(status_code) == status_code >= 400

\* line 243: e.status_code >= 500
IsServerError(status_code) == status_code >= 500

\* lines 231, 243: attempt < self.max_retries
EmbedMayRetry(attempt, max_retries) == attempt < max_retries

\* The exception handlers of _embed_batch_with_retry (lines 229-258): what
\* they do with a failed request.  A connection error has no status_code,
\* so line 243 raises AttributeError while attempts remain.
OnError(e, outcome) ==
    LET more == EmbedMayRetry(e.attempt, e.max_retries)
    IN  CASE outcome = "rate_limit" ->
               IF more THEN [e EXCEPT !.pc = "sleep"]
               ELSE [e EXCEPT !.pc = "raised", !.error = "RateLimitError"]
          [] outcome \in {"status_5xx", "status_4xx"} ->
               IF more /\ IsServerError(StatusOf(outcome))
               THEN [e EXCEPT !.pc = "sleep"]
               ELSE [e EXCEPT !.pc = "raised", !.error = "APIError"]
          [] outcome = "connection_error" ->
               IF more THEN [e EXCEPT !.pc = "raised", !.error = "AttributeError"]
               ELSE [e EXCEPT !.pc = "raised", !.error = "APIConnectionError"]
          [] OTHER -> [e EXCEPT !.pc = "raised", !.error = "OpenAIError"]

\* The request of _embed_batch_with_retry is answered or fails (lines
\* 203-258).  A vector of another length raises ValueError, which no
\* handler catches.  A good response ends the validation (lines 274-283)
\* or is appended to all_embeddings (line 174), and the loop goes on.
CreateResponds(outcome) ==
    /\ embedding.pc = "create"
    /\ LET e == [embedding EXCEPT !.requests = @ + 1, !.tries = Append(@, outcome)]
           embeddings == [k \in 1..Len(e.batch) |-> Embedding(e.batch[k])]
       IN  embedding' =
             CASE outcome = "ok" ->
                    IF e.phase = "validate"
                    THEN LoopAt([e EXCEPT !._validated = TRUE], 0)
                    ELSE LoopAt([e EXCEPT !.all_embeddings = Extend(@, embeddings)],
                                e.i + e.batch_size)
               [] outcome = "wrong_dimension" ->
                    [e EXCEPT !.pc = "raised", !.error = "ValueError"]
               [] OTHER -> OnError(e, outcome)
    /\ UNCHANGED <<coreVars, cleaning, filtering, generation, route>>

\* asyncio.sleep(retry_delay) is over: the next attempt (lines 236, 249, 200).
EmbedSleepDone ==
    /\ embedding.pc = "sleep"
    /\ embedding' = [embedding EXCEPT !.pc = "create", !.attempt = @ + 1]
    /\ UNCHANGED <<coreVars, cleaning, filtering, generation, route>>

\* The caller has the vectors (or the exception); the embedder stays as it is.
EmbedDone ==
    /\ embedding.pc \in {"returned", "raised"}
    /\ embedding' = IdleEmbedding(embedding.kind, embedding.batch_size,
                                  embedding.max_retries, embedding._validated)
    /\ UNCHANGED <<coreVars, cleaning, filtering, generation, route>>

NextEmbedder ==
    \/ EmbedBatch
    \/ Encode
    \/ \E outcome \in CreateOutcomes : CreateResponds(outcome)
    \/ EmbedSleepDone
    \/ EmbedDone

\* ------------------ routes/conversation.py: query_with_conversation, READY
MaxRouteCalls == 4     \* requests to the route in one behaviour

\* api/schemas/rag.py lines 51-63: the fields of RAGQueryResponse that have
\* no default.
RequiredFields == {"answer", "query", "model_used"}

\* Model.__init__(**fields): pydantic raises ValidationError when a
\* required field is missing.
Validates(fields) == RequiredFields \subseteq fields

\* Messages of the exceptions the pipeline can raise, as words.
ErrorMessages ==
    {<<"RAG", "is", "Initializing">>, <<"Failed", "to", "initialize", "RAG">>,
     <<"Model", "is", "still", "loading">>}
PipelineErrors == [type : {"RuntimeError", "ValueError"}, message : ErrorMessages]
NoError == [type |-> "none", message |-> <<>>]

\* str.lower(), word by word
LowerMessage(message) ==
    [k \in 1..Len(message) |->
        CASE message[k] = "RAG" -> "rag"
          [] message[k] = "Initializing" -> "initializing"
          [] message[k] = "Failed" -> "failed"
          [] message[k] = "Model" -> "model"
          [] OTHER -> message[k]]

\* phrase in message
Contains(message, phrase) ==
    \E k \in 0..(Len(message) - Len(phrase)) :
        SubSeq(message, k + 1, k + Len(phrase)) = phrase

\* line 221: "initializing" in str(e).lower() or
\*           "failed to initialize" in str(e).lower()
MentionsInitialization(message) ==
    \/ Contains(LowerMessage(message), <<"initializing">>)
    \/ Contains(LowerMessage(message), <<"failed", "to", "initialize">>)

NoRouteResponse == [fields |-> {}, model_used |-> "none"]

\* No request in progress; messages is the conversation as stored.
IdleRoute(messages, calls) ==
    [pc |-> "idle", calls |-> calls, messages |-> messages,
     conversation_history |-> <<>>, raised |-> NoError, generated |-> FALSE,
     rag_response |-> NoRouteResponse, error |-> "none"]

\* lines 139-218 on an initialized service: the user message is stored, the
\* last six messages are read back, and rag_service.query_with_conversation
\* is awaited.
RouteQuery ==
    /\ route.pc = "idle"
    /\ route.calls < MaxRouteCalls
    /\ LET stored == Append(route.messages, "user")
       IN  route' = [route EXCEPT !.pc = "pipeline", !.calls = @ + 1,
                                  !.messages = stored,
                                  !.conversation_history = LastN(stored, 6)]
    /\ UNCHANGED <<coreVars, cleaning, filtering, generation, embedding>>

\* query_with_conversation returns its response (model_used is the
\* generator's model).
RoutePipelineReturns ==
    /\ route.pc = "pipeline"
    /\ route' = [route EXCEPT !.pc = "persist",
                              !.rag_response = [fields |-> {"query", "answer", "sources",
                                                            "model_used"},
                                                model_used |-> "model"]]
    /\ UNCHANGED <<coreVars, cleaning, filtering, generation, embedding>>

\* query_with_conversation raises (lines 219-246): a RuntimeError whose
\* message mentions initialization leads to generator.generate() on the
\* history; anything else leaves the route.
RoutePipelineRaises ==
    /\ route.pc = "pipeline"
    /\ \E e \in PipelineErrors :
         route' =
           IF e.type = "RuntimeError" /\ MentionsInitialization(e.message)
           THEN [route EXCEPT !.pc = "fallback_generate", !.raised = e]
           ELSE [route EXCEPT !.pc = "raised", !.raised = e, !.error = e.type]
    /\ UNCHANGED <<coreVars, cleaning, filtering, generation, embedding>>

\* lines 240-244: RAGQueryResponse(answer=..., sources=None, model_used=...)
ErrorFallbackFields == {"answer", "sources", "model_used"}

\* generator.generate() returns and the response is built (lines 235-244).
RouteFallbackGenerated ==
    /\ route.pc = "fallback_generate"
    /\ route' =
         IF Validates(ErrorFallbackFields)
         THEN [route EXCEPT !.pc = "persist", !.generated = TRUE,
                            !.rag_response = [fields |-> ErrorFallbackFields,
                                              model_used |-> "model (fallback - RAG error)"]]
         ELSE [route EXCEPT !.pc = "raised", !.generated = TRUE,
                            !.error = "ValidationError"]
    /\ UNCHANGED <<coreVars, cleaning, filtering, generation, embedding>>

\* generator.generate() raises inside the handler: the exception leaves the
\* route.
RouteFallbackGenerateRaises ==
    /\ route.pc = "fallback_generate"
    /\ route' = [route EXCEPT !.pc = "raised", !.error = "RuntimeError"]
    /\ UNCHANGED <<coreVars, cleaning, filtering, generation, embedding>>

\* lines 248-275: the assistant message is stored with the response's
\* model_used and the route answers.
AddAssistantMessage ==
    /\ route.pc = "persist"
    /\ route' = [route EXCEPT !.pc = "responded",
                              !.messages = Append(@, route.rag_response.model_used)]
    /\ UNCHANGED <<coreVars, cleaning, filtering, generation, embedding>>

\* The client has the response (or the error).
RouteDone ==
    /\ route.pc \in {"responded", "raised"}
    /\ route' = IdleRoute(route.messages, route.calls)
    /\ UNCHANGED <<coreVars, cleaning, filtering, generation, embedding>>

NextRoute ==
    \/ RouteQuery
    \/ RoutePipelineReturns
    \/ RoutePipelineRaises
    \/ RouteFallbackGenerated
    \/ RouteFallbackGenerateRaises
    \/ AddAssistantMessage
    \/ RouteDone

\* No call of the retriever's helpers or of the generator in progress; the
\* generator is the one the service builds (max_retries 2 by default).
HelpersIdle ==
    /\ cleaning = IdleCleaning
    /\ filtering = IdleFiltering
    /\ generation = IdleGeneration(2)
    /\ embedding = IdleEmbedding("sentence_transformer", 32, 0, FALSE)
    /\ route = IdleRoute(<<>>, 0)

\* No store call yet; the collection of the service's store is not part of
\* the pipeline model, which keeps the stored ids in kb.
StoreConstructed ==
    /\ coll = NoCollection
    /\ op = IdleOp
    /\ storeFailures = 0

\* A READY service (initialize() has completed once) over some knowledge base.
ServiceReady ==
    /\ _initialized = TRUE
    /\ embedder = 1
    /\ vector_store = 1
    /\ retriever = [built |-> TRUE, embedder |-> 1, vector_store |-> 1]
    /\ generator = 1
    /\ vsInitDone = {1}

InitQuery ==
    /\ ServiceReady
    /\ coro = [c \in CoroIds |-> IF c = 1 THEN [NoCoro EXCEPT !.pc = "returned", !.kind = "direct"]
                                 ELSE NoCoro]
    /\ nCoro = 1
    /\ req = [r \in ReqIds |-> NoReq]
    /\ failures = 0
    /\ kb \in SUBSET DocIds
    /\ q = IdleQuery
    /\ retrieval = IdleRetriever(min_score_threshold)
    /\ StoreConstructed
    /\ HelpersIdle

\* A Retriever built with some threshold, next to an idle READY service.
InitRetriever ==
    /\ ServiceReady
    /\ coro = [c \in CoroIds |-> IF c = 1 THEN [NoCoro EXCEPT !.pc = "returned", !.kind = "direct"]
                                 ELSE NoCoro]
    /\ nCoro = 1
    /\ req = [r \in ReqIds |-> NoReq]
    /\ failures = 0
    /\ kb = {}
    /\ q = IdleQuery
    /\ \E threshold \in Thresholds : retrieval = IdleRetriever(threshold)
    /\ StoreConstructed
    /\ HelpersIdle

\* A QdrantVectorStore right after construction, its collection not yet
\* created, next to an idle READY service.
InitStore ==
    /\ ServiceReady
    /\ coro = [c \in CoroIds |-> IF c = 1 THEN [NoCoro EXCEPT !.pc = "returned", !.kind = "direct"]
                                 ELSE NoCoro]
    /\ nCoro = 1
    /\ req = [r \in ReqIds |-> NoReq]
    /\ failures = 0
    /\ kb = {}
    /\ q = IdleQuery
    /\ retrieval = IdleRetriever(min_score_threshold)
    /\ StoreConstructed
    /\ HelpersIdle

\* A HuggingFaceGenerator built with some max_retries, next to an idle
\* READY service.
InitGenerator ==
    /\ ServiceReady
    /\ coro = [c \in CoroIds |-> IF c = 1 THEN [NoCoro EXCEPT !.pc = "returned", !.kind = "direct"]
                                 ELSE NoCoro]
    /\ nCoro = 1
    /\ req = [r \in ReqIds |-> NoReq]
    /\ failures = 0
    /\ kb = {}
    /\ q = IdleQuery
    /\ retrieval = IdleRetriever(min_score_threshold)
    /\ StoreConstructed
    /\ cleaning = IdleCleaning
    /\ filtering = IdleFiltering
    /\ \E max_retries \in 0..MaxRetries : generation = IdleGeneration(max_retries)
    /\ embedding = IdleEmbedding("sentence_transformer", 32, 0, FALSE)
    /\ route = IdleRoute(<<>>, 0)

\* An embedder right after construction, with some batch_size (and, for
\* OpenAIEmbedder, some max_retries), next to an idle READY service.
InitEmbedder ==
    /\ ServiceReady
    /\ coro = [c \in CoroIds |-> IF c = 1 THEN [NoCoro EXCEPT !.pc = "returned", !.kind = "direct"]
                                 ELSE NoCoro]
    /\ nCoro = 1
    /\ req = [r \in ReqIds |-> NoReq]
    /\ failures = 0
    /\ kb = {}
    /\ q = IdleQuery
    /\ retrieval = IdleRetriever(min_score_threshold)
    /\ StoreConstructed
    /\ cleaning = IdleCleaning
    /\ filtering = IdleFiltering
    /\ generation = IdleGeneration(2)
    /\ \E kind \in EmbedderKinds, batch_size \in 1..MaxBatchSize,
          max_retries \in 0..MaxEmbedRetries :
         /\ kind = "sentence_transformer" => max_retries = 0
         /\ embedding = IdleEmbedding(kind, batch_size, max_retries, FALSE)
    /\ route = IdleRoute(<<>>, 0)

\* The service right after RAGService() was constructed; no call yet.
InitInit ==
    /\ ServiceConstructed
    /\ coro = [c \in CoroIds |-> NoCoro]
    /\ nCoro = 0
    /\ req = [r \in ReqIds |-> NoReq]
    /\ failures = 0
    /\ kb = {}
    /\ q = IdleQuery
    /\ retrieval = IdleRetriever(min_score_threshold)
    /\ StoreConstructed
    /\ HelpersIdle

NextInit ==
    \/ \E c \in CoroIds : TaskStart(c)
    \/ \E c \in CoroIds, o \in ResumeOutcomes : InitializeResume(c, o)
    \/ RouteInitialize
    \/ \E r \in ReqIds : ConvRouteFallback(r)
    \/ \E r \in ReqIds : FallbackRespond(r)
    \/ \E r \in ReqIds : ConvRouteReady(r)
    \/ \E r \in ReqIds : ServiceQueryNotReady(r)
    \/ \E r \in ReqIds : ServiceQueryReady(r)
    \/ \E r \in ReqIds : PipelineRespond(r)

vars == <<initVars, qVars, retrVars, storeVars, auxVars>>

SpecInit == InitInit /\ [][NextInit]_vars

SpecQuery == InitQuery /\ [][NextQuery]_vars

SpecRetriever == InitRetriever /\ [][NextRetriever]_vars

SpecStore == InitStore /\ [][NextStore]_vars

\* Specifications of the retriever's two helpers: the helper is applied to
\* any input, next to an idle READY service.
SpecPreprocess == InitStore /\ [][NextPreprocess]_vars

SpecFilter == InitStore /\ [][NextFilter]_vars

\* Every request is answered or fails within its ClientTimeout, and every
\* asyncio.sleep() ends.
SpecGenerator ==
    /\ InitGenerator /\ [][NextGenerator]_vars
    /\ WF_vars(\E outcome \in ProviderOutcomes : Respond(outcome))
    /\ WF_vars(SleepDone)

SpecEmbedder == InitEmbedder /\ [][NextEmbedder]_vars

\* The conversation route, called again and again on a READY service.
SpecRoute == InitStore /\ [][NextRoute]_vars

\* ================================================================ claims
\* Coroutines suspended inside the construction body of initialize().
InFlight == {c \in CoroIds : coro[c].pc = "awaitVS"}

\* C1: when initialize() calls interleave before any has completed, at most
\* one of them is inside the component-construction body; the others
\* short-circuit.
C1_SingleConstruction == Cardinality(InFlight) <= 1

\* C2: a query that arrives while the service is not READY never waits for
\* initialize(); it is answered by the generator without retrieval and its
\* model_used carries the fallback marker.
C2_NotReadyTakesFallback ==
    \A r \in ReqIds :
        req[r].arrivedNotReady =>
            /\ req[r].pc # "awaitInit"
            /\ ~req[r].waited
            /\ req[r].pc = "responded" => (req[r].marker /\ ~req[r].retrieved)

\* Background initialization tasks (asyncio.create_task) and those of them
\* that have not finished.
BackgroundTasks == {c \in CoroIds : coro[c].kind = "task"}
PendingTasks == {c \in BackgroundTasks : coro[c].pc \in {"scheduled", "awaitVS"}}

\* C3: as long as no background initialization has completed, exactly one
\* background task has been scheduled, however many queries arrived.
C3_ScheduledOnce ==
    (BackgroundTasks # {} /\ PendingTasks = BackgroundTasks) =>
        Cardinality(BackgroundTasks) = 1

C5_ReadyImpliesComponents ==
    _initialized =>
        /\ embedder # None
        /\ vector_store # None
        /\ retriever.built
        /\ generator # None
        /\ vector_store \in vsInitDone

\* ------------------------------------------------- claims on the pipeline
\* The retriever has answered this call and a branch was chosen.
Retrieved == q.branch \in {"conversational", "stats_analysis", "standard_rag"}

\* The one generator call of the current query.
TheCall == q.generatorCalls[1]

\* C6: a non-stats query on a knowledge base whose point count is 0 (and
\* whose count the store did not fail to report) gets the fixed
\* ingestion-instructions answer, model_used "system_message", sources []
\* when requested, and calls neither the retriever nor the generator; both
\* entry points.
C6_EmptyKbShortCircuit ==
    (q.entry \in Entries /\ ~q.is_stats_query /\ kb = {} /\ q.kb_check \in {"none", "info"}) =>
        /\ q.retrieverCalls = 0
        /\ q.generatorCalls = <<>>
        /\ q.pc = "responded" =>
              /\ q.response.answer = "empty_kb_message"
              /\ q.response.model_used = "system_message"
              /\ q.include_sources => q.response.sources = SourceList(<<>>)

\* C7: a statistics query for which a snapshot was fetched is answered from
\* the snapshot (one stats-analysis generator call) even when the knowledge
\* base holds no document.
C7_StatsAnsweredOnEmptyKb ==
    (q.pc = "responded" /\ q.is_stats_query /\ Truthy(q.user_stats_context) /\ kb = {}) =>
        /\ q.response.answer = "generated"
        /\ Len(q.generatorCalls) = 1
        /\ TheCall.kind = "stats_analysis"
        /\ TheCall.total_sessions = q.user_stats_context.total_sessions

\* C8: a turn is classified conversational exactly when the retriever
\* returned nothing or the best score is under 0.5; the conversational
\* branch without stats data calls the generator once, with the persona and
\* no document content, and its response lists no source; a best score of
\* 0.5 or more never takes the conversational branch.
C8_ConversationalClassification ==
    Retrieved =>
        LET res == q.search_results
            low == res = <<>> \/ res[1].score < 50
        IN  /\ q.is_conversational <=> low
            /\ (q.branch = "conversational" /\ ~Truthy(q.user_stats_context)) =>
                  /\ Len(q.generatorCalls) = 1
                  /\ TheCall.persona
                  /\ TheCall.docs = <<>>
                  /\ q.pc = "responded" => q.response.sources.items = <<>>
            /\ ~low => q.branch # "conversational"

\* C8 witness: results exist, the best scores 0.4, and the conversational
\* branch has answered.
C8_Witness ==
    /\ q.pc = "responded" /\ q.branch = "conversational"
    /\ q.search_results # <<>> /\ q.search_results[1].score = 40

\* C9: the data store is read (once) exactly when the query matches a stats
\* pattern and both a user id and a data accessor were supplied; otherwise
\* nothing is read and the stats context stays None.
C9_StatsFetchCondition ==
    LET wanted == _is_stats_query(q.query) /\ q.user_id # NoneStr /\ q.db IN
    /\ q.pc = "fetch_user_stats" => (wanted /\ q.dbReads = 0)
    /\ q.pc \notin {"idle", "fetch_user_stats"} =>
          /\ q.dbReads = (IF wanted THEN 1 ELSE 0)
          /\ ~wanted => q.user_stats_context = NoStats

\* C9 witness: a stats query with user id and accessor has been answered
\* after one read of the data store.
C9_Witness ==
    /\ q.pc = "responded" /\ q.dbReads = 1 /\ Truthy(q.user_stats_context)
    /\ q.user_id = "u1" /\ q.db

\* C10: outside the conversational branch, with a non-empty snapshot, the
\* generator is called exactly once with a stats-analysis prompt that prints
\* the snapshot's total-session and streak values and carries the content of
\* the first two retrieved documents at most.
C10_StatsPrompt ==
    (Retrieved /\ q.branch # "conversational" /\ Truthy(q.user_stats_context)) =>
        LET res == q.search_results IN
        /\ Len(q.generatorCalls) = 1
        /\ TheCall.kind = "stats_analysis"
        /\ TheCall.total_sessions = q.user_stats_context.total_sessions
        /\ TheCall.current_streak = q.user_stats_context.current_streak
        /\ TheCall.longest_streak = q.user_stats_context.longest_streak
        /\ Len(TheCall.docs) = Min(2, Len(res))
        /\ \A i \in 1..Len(TheCall.docs) : TheCall.docs[i] = DocContent(res[i].id)

\* C10 witness: three documents were retrieved, two of them are in the
\* stats-analysis prompt, next to the snapshot's 12 sessions.
C10_Witness ==
    /\ q.pc = "responded" /\ q.branch = "stats_analysis"
    /\ Len(q.search_results) = 3
    /\ Len(TheCall.docs) = 2
    /\ TheCall.total_sessions = 12

\* What a source entry shows of a document's text: the text when it has at
\* most 300 characters, else its first 300 characters and "...".
ShownContent(d) ==
    IF ContentLen(d) <= 300
    THEN [doc |-> d, len |-> ContentLen(d), ellipsis |-> FALSE]
    ELSE [doc |-> d, len |-> 300, ellipsis |-> TRUE]

\* C11: in every response of both entry points and every branch, sources is
\* None when the caller did not request sources; when the caller did, sources
\* has one entry per retrieved result, in retrieval order, with the result's
\* score and the content cut to 300 characters plus "..." when longer.
C11_SourcesFollowRequest ==
    q.pc = "responded" =>
        LET res == q.search_results
            sources == q.response.sources
        IN  IF ~q.include_sources
            THEN sources = NoSources
            ELSE /\ sources.present
                 /\ Len(sources.items) = Len(res)
                 /\ \A i \in 1..Len(res) :
                       /\ sources.items[i].score = res[i].score
                       /\ sources.items[i].content = ShownContent(res[i].id)

\* C12: whatever prompt query_with_conversation builds for a history of n
\* turns carries exactly the last min(n, 6) turns, in their order, before
\* the current question.
C12_LastSixTurnsBeforeQuestion ==
    (q.entry = "query_with_conversation" /\ Retrieved) =>
        LET n == Len(q.history)
            m == Min(n, 6)
        IN  /\ Len(q.generatorCalls) = 1
            /\ Len(TheCall.history) = m
            /\ \A i \in 1..m : TheCall.history[i] = q.history[n - m + i]
            /\ m > 0 => TheCall.history_position = "before_question"

\* C13: a query in which a step raised (the stats fetch, the knowledge-base
\* check, retrieval, generation) ends by raising to its caller; it never
\* goes on towards a normal response.
C13_StepErrorsAreRaised ==
    q.raised_steps # {} => q.pc = "raised"

\* C14: the fixed ingestion-instructions answer is given only when the
\* store holds no document; a get_collection_info() that failed and has no
\* point count is not answered with it.
C14_EmptyAnswerOnlyWhenEmpty ==
    (q.pc = "responded" /\ q.response.answer = "empty_kb_message") =>
        (kb = {} /\ q.kb_check = "info")

\* ------------------------------------------------ claims on the retriever
\* C15: whatever list the vector store returned, every result that
\* retrieve() returns has a score of at least the retriever's
\* min_score_threshold.
C15_ThresholdInvariant ==
    retrieval.pc = "returned" =>
        \A i \in 1..Len(retrieval.results) :
            retrieval.results[i].score >= retrieval.min_score_threshold

\* C15 witness: the store returned a result under a positive threshold and
\* one at the threshold, and retrieve() returned a non-empty list.
C15_Witness ==
    /\ retrieval.pc = "returned" /\ retrieval.min_score_threshold = 40
    /\ \E i \in 1..Len(retrieval.raw) : retrieval.raw[i].score < 40
    /\ \E i \in 1..Len(retrieval.results) : retrieval.results[i].score = 40

\* Positions of the store's list that pass the threshold and whose id has
\* not passed it at an earlier position.
FirstPassing ==
    LET raw == retrieval.raw
        passes(i) == raw[i].score >= retrieval.min_score_threshold
    IN  {i \in 1..Len(raw) :
            passes(i) /\ \A j \in 1..(i - 1) : ~(passes(j) /\ raw[j].id = raw[i].id)}

\* C16: the ids of a returned list are pairwise distinct; the result kept
\* for an id is its first threshold-passing occurrence in the store's list,
\* and the kept results stand in the store's order.
C16_DedupKeepsFirst ==
    retrieval.pc = "returned" =>
        LET res == retrieval.results
            nth(k) == CHOOSE i \in FirstPassing :
                          Cardinality({j \in FirstPassing : j <= i}) = k
        IN  /\ \A i, j \in 1..Len(res) : i # j => res[i].id # res[j].id
            /\ Len(res) = Cardinality(FirstPassing)
            /\ \A k \in 1..Len(res) : res[k] = retrieval.raw[nth(k)]

\* C16 witness: an id came three times, first under the threshold, then
\* twice above it, and the returned list holds it once.
C16_Witness ==
    /\ retrieval.pc = "returned" /\ retrieval.min_score_threshold = 30
    /\ Len(retrieval.raw) = 3
    /\ \A i \in 1..3 : retrieval.raw[i].id = 1
    /\ retrieval.raw[1].score = 20 /\ retrieval.raw[2].score = 40
    /\ retrieval.raw[3].score = 50
    /\ Len(retrieval.results) = 1

\* ------------------------------------------------- claims on the store
\* C17: in any sequence of initialize() calls, failed ones included, the
\* collection is created only when it is absent, and every initialize()
\* that returns normally leaves the collection existing with payload
\* indexes on category, user_id and session_id.
C17_InitializeEstablishesIndexes ==
    [][ /\ (op.pc = "create_collection" /\ op'.pc = "create_payload_index_1") =>
              ~coll.exists
        /\ (op'.kind = "initialize" /\ op'.pc = "returned") =>
              /\ coll'.exists
              /\ coll'.indexes = {"category", "user_id", "session_id"} ]_vars

\* C18: add_documents() called with lists of different lengths raises
\* ValueError and the stored documents are what they were.
C18_LengthMismatchWritesNothing ==
    [][ (op'.kind = "add_documents" /\ Len(op'.documents) # op'.embeddings) =>
            /\ op'.pc = "raised"
            /\ op'.error = "ValueError"
            /\ coll' = coll ]_vars

\* C18 witness: a call with two documents and one embedding has raised
\* ValueError on a collection that holds a document.
C18_Witness ==
    /\ op.kind = "add_documents" /\ op.pc = "raised" /\ op.error = "ValueError"
    /\ Len(op.documents) = 2 /\ op.embeddings = 1
    /\ \E i \in StoreIds : coll.points[i].present

\* The stored point of id i is document d as it was given to add_documents.
Holds(points, i, d) ==
    /\ points[i].present
    /\ points[i].content = d.content
    /\ points[i].metadata = d.metadata

\* C19: an add_documents() that completes leaves, for every id it names, one
\* stored document with the content and metadata of the most recent add of
\* that id, and the other ids as they were; a search surfaces for every id
\* the stored, that is the most recently added, version.
C19_UpsertKeepsLatest ==
    [][ /\ (op.pc = "upsert" /\ op'.pc = "returned") =>
              \A i \in StoreIds :
                  LET at == {k \in 1..Len(op.documents) : op.documents[k].id = i} IN
                  IF at = {}
                  THEN coll'.points[i] = coll.points[i]
                  ELSE Holds(coll'.points, i,
                             op.documents[CHOOSE k \in at : \A l \in at : l <= k])
        /\ (op.pc = "search" /\ op'.pc = "returned") =>
              \A r \in 1..Len(op'.results) :
                  /\ coll.points[op'.results[r].id].present
                  /\ op'.results[r].content = coll.points[op'.results[r].id].content
                  /\ op'.results[r].metadata = coll.points[op'.results[r].id].metadata
                  /\ \A r2 \in 1..Len(op'.results) :
                        r # r2 => op'.results[r].id # op'.results[r2].id ]_vars

\* C19 witness: document 1 was added again with content v2 over a stored
\* one, and the store holds v2 under id 1.
C19_Witness ==
    /\ op.kind = "add_documents" /\ op.pc = "returned"
    /\ 1 \in op.replaced
    /\ Len(op.documents) = 1 /\ op.documents[1].content = "v2"
    /\ coll.points[1].content = "v2"

\* C20: delete_by_id(id) returns True exactly when a document with that id
\* was present and is removed, False when there was none; the other
\* documents are left as they were.
C20_DeleteReportsRemoval ==
    [][ (op.pc = "delete" /\ op'.pc = "returned") =>
            /\ op'.result <=> (/\ coll.points[op.document_id].present
                                /\ ~coll'.points[op.document_id].present)
            /\ ~coll.points[op.document_id].present => ~op'.result
            /\ \A i \in StoreIds \ {op.document_id} : coll'.points[i] = coll.points[i] ]_vars

\* C21: a clear() that has completed leaves the collection existing and
\* without documents, a search that follows returns []; and once a clear()
\* has started and deleted the collection, no request of add_documents,
\* search or delete_by_id meets a missing collection.
C21_ClearLeavesUsableStore ==
    /\ (op.kind = "clear" /\ op.pc = "returned") =>
          /\ coll.exists
          /\ \A i \in StoreIds : ~coll.points[i].present
    /\ (op.kind = "search" /\ op.pc = "returned"
           /\ \A i \in StoreIds : ~coll.points[i].present) => op.results = <<>>
    /\ (coll.cleared /\ op.pc \in {"upsert", "search", "delete"}) => coll.exists

Visible(str) == SelectSeq(str, LAMBDA c : c \in {"a", "A", "?"})

\* C25: what _preprocess_query returns has no whitespace at either end, no
\* two spaces in a row and no control character (line feed and tab
\* included); its letters keep their case and its punctuation stays.
C25_PreprocessedIsClean ==
    cleaning.pc = "returned" =>
        LET out == cleaning.cleaned IN
        /\ out # <<>> => (~IsSpace(out[1]) /\ ~IsSpace(out[Len(out)]))
        /\ \A i \in 1..(Len(out) - 1) : ~(out[i] = "SP" /\ out[i + 1] = "SP")
        /\ \A i \in 1..Len(out) : out[i] \notin {"LF", "NUL"}
        /\ Visible(out) = Visible(cleaning.query)

\* C24: the filter retrieve() passes on holds exactly the entries of context
\* under user_id, category, tags and session_id, each overridden by the
\* entry of filter_metadata under the same key, plus the other entries of
\* filter_metadata; it is None when there is no such entry.
C24_CombinedFilter ==
    filtering.pc = "returned" =>
        LET ctx == IF filtering.context.none THEN EmptyDictF ELSE filtering.context.dict
            fm == IF filtering.filter_metadata.none THEN EmptyDictF
                  ELSE filtering.filter_metadata.dict
            kept == DOMAIN ctx \cap {"user_id", "category", "tags", "session_id"}
            keys == kept \cup DOMAIN fm
            out == filtering.combined_filter
        IN  IF keys = {} THEN out.none
            ELSE /\ ~out.none
                 /\ DOMAIN out.dict = keys
                 /\ \A k \in keys :
                       out.dict[k] = IF k \in DOMAIN fm THEN fm[k] ELSE ctx[k]

\* C24 witness: context carries a category, tags and a key that is not
\* filterable; filter_metadata carries another category and a key of its own.
C24_Witness ==
    /\ filtering.pc = "returned"
    /\ ~filtering.context.none /\ ~filtering.filter_metadata.none
    /\ DOMAIN filtering.context.dict = {"category", "tags", "session_type"}
    /\ DOMAIN filtering.filter_metadata.dict = {"category", "source"}
    /\ filtering.context.dict["category"] # filtering.filter_metadata.dict["category"]
    /\ DOMAIN filtering.combined_filter.dict = {"category", "tags", "source"}

\* ------------------------------------------------ claims on the generator
\* The call returned on a 200 that was the first one among its requests.
ReturnedOnFirst200 ==
    LET o == generation.outcomes IN
    /\ o # <<>> /\ o[Len(o)] = "200"
    /\ \A i \in 1..(Len(o) - 1) : o[i] # "200"

BoundedRetries ==
    /\ generation.requests <= generation.max_retries + 1
    /\ generation.pc = "returned" => ReturnedOnFirst200
    /\ generation.pc = "raised" =>
          /\ generation.error = "RuntimeError"
          /\ \/ generation.outcomes[Len(generation.outcomes)] = "other_status"
             \/ generation.requests = generation.max_retries + 1

C22_EmbedBatchInOrder ==
    /\ embedding.pc = "returned" =>
         /\ Len(embedding.result) = Len(embedding.texts)
         /\ \A k \in 1..Len(embedding.texts) :
              embedding.result[k] = Embedding(embedding.texts[k])
    /\ (embedding.pc = "create" /\ embedding.phase = "batch") =>
         Len(embedding.batch) \in 1..embedding.batch_size
    /\ (embedding.pc = "returned" /\ embedding.texts = <<>>) =>
         (embedding.result = <<>> /\ embedding.requests = 0)

\* An OpenAIEmbedder has returned a list of different texts that took more
\* than one batch.
C22_Witness ==
    /\ embedding.kind = "openai"
    /\ embedding.pc = "returned"
    /\ Len(embedding.texts) > embedding.batch_size
    /\ embedding.texts[1] # embedding.texts[2]

Retryable == {"rate_limit", "status_5xx"}

C28_ErrorFallbackPersisted ==
    route.pc \in {"responded", "raised"} =>
      /\ (route.raised.type = "RuntimeError"
            /\ MentionsInitialization(route.raised.message) /\ route.generated) =>
           /\ route.pc = "responded"
           /\ route.rag_response.model_used = "model (fallback - RAG error)"
           /\ route.messages[Len(route.messages)] = "model (fallback - RAG error)"
      /\ (route.raised # NoError
            /\ ~(route.raised.type = "RuntimeError"
                   /\ MentionsInitialization(route.raised.message))) =>
           (route.pc = "raised" /\ route.error = route.raised.type)

\* The other entry point of the service.
OtherEntry(entry) == IF entry = "query" THEN "query_with_conversation" ELSE "query"

\* What the other entry point does with the arguments, the statistics and
\* the store contents of the call that has just been answered: its branch
\* and its sources.  An empty collection has nothing to retrieve.
OtherResults == IF q.branch = "empty_kb" THEN <<>> ELSE q.search_results
OtherBranch ==
    IF OtherEntry(q.entry) = "query" /\ kb = {} THEN "empty_kb"
    ELSE Branch(OtherEntry(q.entry), is_conversational(OtherResults),
                q.is_stats_query, q.user_stats_context)
OtherSources ==
    IF OtherBranch = "empty_kb" THEN EmptyKbResponse(q.include_sources).sources
    ELSE ResponseSources(OtherEntry(q.entry), OtherBranch, q.include_sources, OtherResults)

\* C29: a call without history that was answered (the knowledge-base check,
\* where made, having answered normally) took the branch and returned the
\* sources that the other entry point takes and returns for the same
\* arguments and store contents.
C29_EntryPointsAgree ==
    (q.pc = "responded" /\ q.history = <<>> /\ q.kb_check \in {"none", "info"}) =>
        /\ q.branch = OtherBranch
        /\ q.response.sources = OtherSources

\* C30: whenever the service is READY its retriever exists and holds the
\* embedder and the vector store that are the service's own fields.
C30_RetrieverWiredToService ==
    _initialized =>
        /\ retriever.built
        /\ retriever.embedder = embedder
        /\ retriever.vector_store = vector_store

\* The first initialize() made the service READY after a second one, still
\* suspended, had replaced the embedder and the store.
C30_Witness ==
    /\ _initialized
    /\ coro[1].pc = "returned"
    /\ coro[2].pc = "awaitVS"
    /\ retriever.embedder = 2
    /\ embedder = 2
====
